---------------------------- MODULE Spec2Model ----------------------------
(***************************************************************************)
(* A model of the BuyLowSellHigh backtesting pipeline:                     *)
(*   src/strategies.py  - the four strategies and finalize_positions       *)
(*   src/backtester.py  - Backtester.__init__, run and the three metrics   *)
(*                                                                         *)
(* Numbers are exact rationals <<n, d>> with d > 0 in lowest terms.  The   *)
(* float specials the code meets are kept: NaN is <<0, 0>>, +inf <<1, 0>>  *)
(* and -inf <<-1, 0>>.  A value s * sqrt(n/d) (a standard deviation, a     *)
(* z-score, the Sharpe ratio) is the triple <<s, n, d>>, NaN <<0, 0, 0>>.  *)
(* A DataFrame is a function from column names to equally long sequences;  *)
(* the frames live in a heap so that aliasing and in-place column          *)
(* assignment are visible.                                                 *)
(***************************************************************************)
EXTENDS Integers, Sequences, FiniteSets, TLC

\* ------------------------------------------------------------------ bounds
MaxBars == 3
MaxPrice == 2

\* ------------------------------------------------------- program constants
InitialCapital == 100000
PeriodsPerYear == 1638

\* -------------------------------------------------------- exact arithmetic
NaN == <<0, 0>>
Zero == <<0, 1>>
One == <<1, 1>>

Abs(x) == IF x < 0 THEN -x ELSE x
Sign(x) == IF x < 0 THEN -1 ELSE IF x > 0 THEN 1 ELSE 0

RECURSIVE GCD(_, _)
GCD(a, b) == IF b = 0 THEN a ELSE GCD(b, a % b)

Rat(n, d) ==
  IF d = 0 THEN <<Sign(n), 0>>
  ELSE LET s == IF d < 0 THEN -1 ELSE 1
           g == GCD(Abs(n), Abs(d))
       IN  <<(s * n) \div g, (s * d) \div g>>

Num(k) == <<k, 1>>
IsNaN(a) == a[1] = 0 /\ a[2] = 0
IsFinite(a) == a[2] > 0

RNeg(a) == <<-a[1], a[2]>>

RAdd(a, b) ==
  IF IsNaN(a) \/ IsNaN(b) THEN NaN
  ELSE IF a[2] = 0 /\ b[2] = 0 THEN (IF a[1] = b[1] THEN a ELSE NaN)
  ELSE IF a[2] = 0 THEN a
  ELSE IF b[2] = 0 THEN b
  ELSE LET g == GCD(a[2], b[2])
       IN  Rat(a[1] * (b[2] \div g) + b[1] * (a[2] \div g), (a[2] \div g) * b[2])

RSub(a, b) == RAdd(a, RNeg(b))

RMul(a, b) ==
  IF IsNaN(a) \/ IsNaN(b) THEN NaN
  ELSE IF a[2] = 0 \/ b[2] = 0 THEN <<a[1] * b[1], 0>>
  ELSE LET g1 == GCD(Abs(a[1]), b[2])
           g2 == GCD(Abs(b[1]), a[2])
       IN  Rat((a[1] \div g1) * (b[1] \div g2), (a[2] \div g2) * (b[2] \div g1))

RDiv(a, b) ==
  IF IsNaN(a) \/ IsNaN(b) THEN NaN
  ELSE IF b[2] = 0 THEN (IF a[2] = 0 THEN NaN ELSE Zero)
  ELSE IF b[1] = 0 THEN <<Sign(a[1]), 0>>
  ELSE IF a[2] = 0 THEN <<a[1] * Sign(b[1]), 0>>
  ELSE RMul(a, Rat(b[2], b[1]))

\* IEEE comparisons: anything compared with NaN is false, except !=.
RLt(a, b) == ~IsNaN(a) /\ ~IsNaN(b) /\ a # b /\ a[1] * b[2] < b[1] * a[2]
RGt(a, b) == RLt(b, a)
REq(a, b) == ~IsNaN(a) /\ ~IsNaN(b) /\ a = b
RNe(a, b) == ~REq(a, b)
RLe(a, b) == RLt(a, b) \/ REq(a, b)

RMax(a, b) == IF RLt(a, b) THEN b ELSE a
RMin(a, b) == IF RLt(b, a) THEN b ELSE a

\* s * sqrt(n/d)
RootNaN == <<0, 0, 0>>
RootZero == <<0, 0, 1>>
IsRootNaN(z) == z[3] = 0
\* the non-negative square root of a rational
Sqrt(a) == IF ~IsFinite(a) \/ a[1] < 0 THEN RootNaN ELSE <<Sign(a[1]), a[1], a[2]>>
\* a / r for a rational a and a root value r >= 0
DivByRoot(a, r) ==
  IF IsNaN(a) \/ IsRootNaN(r) THEN RootNaN
  ELSE IF r[1] = 0 THEN RootNaN
  ELSE LET q == RMul(RMul(a, a), Rat(r[3], r[2]))
       IN  <<Sign(a[1]), q[1], q[2]>>
\* z * sqrt(k) for an integer k > 0
RootScale(z, k) ==
  IF IsRootNaN(z) THEN RootNaN
  ELSE LET q == RMul(<<z[2], z[3]>>, Num(k)) IN <<z[1], q[1], q[2]>>
\* z > t and z < -t for a rational threshold t >= 0
RootGt(z, t) ==
  ~IsRootNaN(z) /\ z[1] > 0 /\ RGt(<<z[2], z[3]>>, RMul(t, t))
RootLtNeg(z, t) ==
  ~IsRootNaN(z) /\ z[1] < 0 /\ RGt(<<z[2], z[3]>>, RMul(t, t))

\* --------------------------------------------------------- series helpers
\* a sequence given as a function over 1..n, as the tuple of its entries
Tup(f) == f \o <<>>

RECURSIVE SeqSum(_)
SeqSum(s) == IF s = <<>> THEN Zero ELSE RAdd(Head(s), SeqSum(Tail(s)))

\* the entries of s that are not NaN, in order (pandas' skipna)
RECURSIVE DropNaN(_)
DropNaN(s) ==
  IF s = <<>> THEN <<>>
  ELSE IF IsNaN(Head(s)) THEN DropNaN(Tail(s))
  ELSE <<Head(s)>> \o DropNaN(Tail(s))

\* Series.mean(): NaN skipped; NaN when nothing is left
Mean(s) ==
  LET v == DropNaN(s)
  IN  IF v = <<>> THEN NaN ELSE RDiv(SeqSum(v), Num(Len(v)))

\* the sample variance (ddof = 1) of the non-NaN entries; NaN for fewer than two
Var(s) ==
  LET v == DropNaN(s)
      m == Mean(v)
      sq == Tup([i \in 1..Len(v) |-> RMul(RSub(v[i], m), RSub(v[i], m))])
  IN  IF Len(v) < 2 THEN NaN ELSE RDiv(SeqSum(sq), Num(Len(v) - 1))

\* Series.std()
Std(s) == Sqrt(Var(s))

\* Series.min(): NaN skipped; NaN when nothing is left
RECURSIVE FoldMin(_, _)
FoldMin(s, acc) == IF s = <<>> THEN acc ELSE FoldMin(Tail(s), RMin(acc, Head(s)))
SeriesMin(s) ==
  LET v == DropNaN(s) IN IF v = <<>> THEN NaN ELSE FoldMin(Tail(v), Head(v))

RECURSIVE FoldMax(_, _)
FoldMax(s, acc) == IF s = <<>> THEN acc ELSE FoldMax(Tail(s), RMax(acc, Head(s)))
SeriesMax(s) ==
  LET v == DropNaN(s) IN IF v = <<>> THEN NaN ELSE FoldMax(Tail(v), Head(v))

\* Series.shift(1)
Shift1(s) == Tup([i \in 1..Len(s) |-> IF i = 1 THEN NaN ELSE s[i - 1]])
\* Series.fillna(v)
FillNa(s, v) == Tup([i \in 1..Len(s) |-> IF IsNaN(s[i]) THEN v ELSE s[i]])
\* Series.clip(lo, hi)
Clip(s, lo, hi) ==
  Tup([i \in 1..Len(s) |-> IF RLt(s[i], lo) THEN lo ELSE IF RGt(s[i], hi) THEN hi ELSE s[i]])

\* Series.rolling(w): the window ending at bar i, NaN-free and complete, or <<>>
Window(s, w, i) ==
  IF w <= 0 \/ i < w THEN <<>>
  ELSE LET win == Tup([k \in 1..w |-> s[i - w + k]])
       IN  IF Len(DropNaN(win)) < w THEN <<>> ELSE win

RollingMean(s, w) == Tup([i \in 1..Len(s) |-> Mean(Window(s, w, i))])
RollingStd(s, w) == Tup([i \in 1..Len(s) |-> Std(Window(s, w, i))])
RollingMax(s, w) == Tup([i \in 1..Len(s) |-> SeriesMax(Window(s, w, i))])
RollingMin(s, w) == Tup([i \in 1..Len(s) |-> SeriesMin(Window(s, w, i))])

\* ------------------------------------------------------------- DataFrames
Columns(df) == DOMAIN df
NumRows(df) == IF Columns(df) = {} THEN 0 ELSE Len(df[CHOOSE c \in Columns(df) : TRUE])
\* df[c] = s
SetCol(df, c, s) == (c :> s) @@ df

\* df.sort_values("Datetime"): a new frame, rows ascending by timestamp
SortValues(df) ==
  LET dt == df["Datetime"]
      n == Len(dt)
      at(k) == CHOOSE i \in 1..n : Cardinality({j \in 1..n : RLt(dt[j], dt[i])}) = k - 1
  IN  [c \in Columns(df) |-> Tup([k \in 1..n |-> df[c][at(k)]])]

NoFrame == <<>>

\* ------------------------------------------------------------- strategies
\* finalize_positions without the one-bar delay of line 40
FinalizePositionsNoShift(df) ==
  LET signal == Clip(FillNa(df["signal"], Zero), Num(-1), Num(1))
  IN  SetCol(SetCol(df, "signal", signal), "position", signal)

\* BaseStrategy.finalize_positions, lines 37-40 (the caller checks line 33)
FinalizePositions(df) ==
  LET signal == Clip(FillNa(df["signal"], Zero), Num(-1), Num(1))
      position == FillNa(Shift1(signal), Zero)
  IN  SetCol(SetCol(df, "signal", signal), "position", position)

\* df.loc[mask1, "signal"] = v1 and then df.loc[mask2, "signal"] = v2 over a column of 0
SignalColumn(n, mask1, v1, mask2, v2) ==
  Tup([i \in 1..n |-> IF mask2[i] THEN Num(v2) ELSE IF mask1[i] THEN Num(v1) ELSE Zero])

\* BuyLowSellHighStrategy.generate_signals, lines 69-80, on the sorted copy
BuyLowSellHighSignals(df, lookback, pct_threshold) ==
  LET n == NumRows(df)
      close == df["Close"]
      ma == RollingMean(close, lookback)
      dev == Tup([i \in 1..n |-> RDiv(RSub(close[i], ma[i]), ma[i])])
      low == Tup([i \in 1..n |-> RLt(dev[i], RNeg(pct_threshold))])
      high == Tup([i \in 1..n |-> RGt(dev[i], pct_threshold)])
  IN  SetCol(SetCol(SetCol(df, "ma", ma), "dev", dev),
             "signal", SignalColumn(n, low, 1, high, -1))

\* MeanReversionStrategy.generate_signals, lines 103-110, on the sorted copy
MeanReversionSignals(df, lookback, threshold) ==
  LET n == NumRows(df)
      close == df["Close"]
      ma == RollingMean(close, lookback)
      std == RollingStd(close, lookback)
      z == Tup([i \in 1..n |-> DivByRoot(RSub(close[i], ma[i]), std[i])])
      over == Tup([i \in 1..n |-> RootGt(z[i], threshold)])
      under == Tup([i \in 1..n |-> RootLtNeg(z[i], threshold)])
  IN  SetCol(SetCol(SetCol(SetCol(df, "ma", ma), "std", std), "z", z),
             "signal", SignalColumn(n, over, -1, under, 1))

\* BreakoutStrategy.generate_signals, lines 133-138, on the sorted copy
BreakoutSignals(df, lookback) ==
  LET n == NumRows(df)
      high_roll == RollingMax(df["High"], lookback)
      low_roll == RollingMin(df["Low"], lookback)
      up == Tup([i \in 1..n |-> RGt(df["Close"][i], Shift1(high_roll)[i])])
      down == Tup([i \in 1..n |-> RLt(df["Close"][i], Shift1(low_roll)[i])])
  IN  SetCol(SetCol(SetCol(df, "high_roll", high_roll), "low_roll", low_roll),
             "signal", SignalColumn(n, up, 1, down, -1))

\* ------------------------------------------------------------------ state
VARIABLES
  heap,         \* the DataFrame objects: caller's, the strategy's, the engine's
  pc,           \* where the pipeline stands
  err,          \* the exception that ended it, or "none"
  strat,        \* the strategy that was run
  raw,          \* the strategy's signal column as produced, before finalize
  bt,           \* the Backtester object: self.df (a heap name), initial_capital
  i,            \* trade loop: the next row of iterrows()
  current_pnl,  \* trade loop: the accumulator
  prev_pos,     \* trade loop: the previous row's position
  trade_pnls,   \* trade loop: the scored segments
  metrics,      \* run(): sharpe, max_dd, num_trades, held until the report
  results       \* the reports returned so far, oldest first

vars == <<heap, pc, err, strat, raw, bt, i, current_pnl, prev_pos, trade_pnls,
          metrics, results>>
loopVars == <<i, current_pnl, prev_pos, trade_pnls, metrics>>

\* -------------------------------------------------------------- the inputs
Prices == 1..MaxPrice
\* a lookback longer than the series never fills a window
Lookbacks == (0 - 1)..MaxBars
Thresholds == {Zero, Rat(1, 2)}
\* what an injected rule function may put in a signal column
RawSignals == {NaN, Num(-2), Rat(1, 2)}
\* the caller hands the bars over in ascending or in descending time order
Orders == {"asc", "desc"}
\* a column the caller's frame may lack
Dropped == {"none", "Datetime", "Close"}

SeqsOf(S, n) == [1..n -> S]

\* The caller's frame: one row per bar, every bar with High = Low = Close (the
\* code reads no Open), timestamps 1..n in the order the caller chose.
PriceFrame(closes, order, drop) ==
  LET n == Len(closes)
      at(k) == IF order = "asc" THEN k ELSE n + 1 - k
      px == Tup([k \in 1..n |-> Num(closes[at(k)])])
      full == [c \in {"Datetime", "Close", "High", "Low"} |->
                 IF c = "Datetime" THEN Tup([k \in 1..n |-> Num(at(k))]) ELSE px]
  IN  [c \in {"Datetime", "Close", "High", "Low"} \ {drop} |-> full[c]]

NoStrategy == [kind |-> "none", lookback |-> 0, threshold |-> Zero]
NoBacktester == [df |-> "none", src |-> "none", initial_capital |-> 0]
NoMetrics == [sharpe |-> RootNaN, max_dd |-> NaN, num_trades |-> 0]

Init ==
  /\ \E n \in 0..MaxBars : \E closes \in SeqsOf(Prices, n) :
       \E order \in (IF n < 2 THEN {"asc"} ELSE Orders) : \E drop \in Dropped :
         heap = [caller |-> PriceFrame(closes, order, drop),
                 sdf |-> NoFrame, btdf |-> NoFrame]
  /\ pc = "start"
  /\ err = "none"
  /\ strat = NoStrategy
  /\ raw = <<>>
  /\ bt = NoBacktester
  /\ i = 0
  /\ current_pnl = Zero
  /\ prev_pos = Zero
  /\ trade_pnls = <<>>
  /\ metrics = NoMetrics
  /\ results = <<>>

\* ------------------------------------------------------------- the steps
Raise(e) == pc' = "error" /\ err' = e

\* sorting the argument in place instead of a copy: df stays bound to the argument
AliasedFrame(src, fresh) == src

\* the frame the name df is bound to after df = df.copy().sort_values("Datetime")
WorkingCopy(src, fresh) == fresh

\* generate_signals of a built-in strategy: lines 66, 101, 131, then the rule, then
\* finalize_positions
Generate(kind, lookback, threshold, needs) ==
  LET df == WorkingCopy("caller", "sdf")
      sorted == SortValues(heap["caller"])
      sig == CASE kind = "BuyLowSellHigh" -> BuyLowSellHighSignals(sorted, lookback, threshold)
               [] kind = "MeanReversion" -> MeanReversionSignals(sorted, lookback, threshold)
               [] kind = "Breakout" -> BreakoutSignals(sorted, lookback)
  IN  /\ pc = "start"
      /\ strat' = [kind |-> kind, lookback |-> lookback, threshold |-> threshold]
      /\ IF "Datetime" \notin Columns(heap["caller"])
           THEN Raise("KeyError") /\ UNCHANGED <<heap, raw>>
         ELSE IF ~(needs \subseteq Columns(heap["caller"]))
           THEN /\ Raise("KeyError")
                /\ heap' = [heap EXCEPT ![df] = sorted]
                /\ UNCHANGED raw
         ELSE IF lookback < 0
           THEN /\ Raise("ValueError")
                /\ heap' = [heap EXCEPT ![df] = sorted]
                /\ UNCHANGED raw
         ELSE /\ heap' = [heap EXCEPT ![df] = FinalizePositions(sig)]
              /\ raw' = sig["signal"]
              /\ pc' = "signals"
              /\ UNCHANGED err
      /\ UNCHANGED <<bt, loopVars, results>>

BuyLowSellHighGenerate ==
  \E lookback \in Lookbacks, pct_threshold \in Thresholds :
    Generate("BuyLowSellHigh", lookback, pct_threshold, {"Close"})

MeanReversionGenerate ==
  \E lookback \in Lookbacks, threshold \in Thresholds :
    Generate("MeanReversion", lookback, threshold, {"Close"})

BreakoutGenerate ==
  \E lookback \in Lookbacks : Generate("Breakout", lookback, Zero, {"High", "Low", "Close"})

\* CustomStrategy.generate_signals: rule_fn adds a signal column, or none
CustomGenerate ==
  LET df == WorkingCopy("caller", "sdf")
  IN  /\ pc = "start"
      /\ strat' = [kind |-> "Custom", lookback |-> 0, threshold |-> Zero]
      /\ IF "Datetime" \notin Columns(heap["caller"])
           THEN Raise("KeyError") /\ UNCHANGED <<heap, raw>>
         ELSE LET sorted == SortValues(heap["caller"])
              IN  \/ /\ Raise("ValueError")
                     /\ heap' = [heap EXCEPT ![df] = sorted]
                     /\ UNCHANGED raw
                  \/ \E signal \in SeqsOf(RawSignals, NumRows(sorted)) :
                       /\ heap' = [heap EXCEPT ![df] =
                                     FinalizePositions(SetCol(sorted, "signal", signal))]
                       /\ raw' = signal
                       /\ pc' = "signals"
                       /\ UNCHANGED err
      /\ UNCHANGED <<bt, loopVars, results>>

\* ------------------------------------------------------------ Backtester
\* Series.pct_change()
PctChange(s) ==
  Tup([k \in 1..Len(s) |-> IF k = 1 THEN NaN ELSE RSub(RDiv(s[k], s[k - 1]), One)])

\* Series.cumprod(): a NaN entry stays NaN and is skipped by the running product
RECURSIVE Prod(_)
Prod(s) == IF s = <<>> THEN One ELSE RMul(Head(s), Prod(Tail(s)))
CumProd(s) ==
  Tup([k \in 1..Len(s) |-> IF IsNaN(s[k]) THEN NaN ELSE Prod(DropNaN(SubSeq(s, 1, k)))])

\* Series.cummax(): a NaN entry stays NaN and is skipped by the running maximum
CumMax(s) ==
  Tup([k \in 1..Len(s) |-> IF IsNaN(s[k]) THEN NaN ELSE SeriesMax(SubSeq(s, 1, k))])

\* Series.diff()
Diff(s) == Tup([k \in 1..Len(s) |-> IF k = 1 THEN NaN ELSE RSub(s[k], s[k - 1])])

Scale(s, c) == Tup([k \in 1..Len(s) |-> RMul(s[k], c)])
Plus1(s) == Tup([k \in 1..Len(s) |-> RAdd(One, s[k])])

\* Backtester._compute_sharpe
ComputeSharpe(returns) ==
  IF Std(returns) = RootZero THEN RootZero
  ELSE RootScale(DivByRoot(Mean(returns), Std(returns)), PeriodsPerYear)

\* Backtester._compute_max_drawdown
ComputeMaxDrawdown(equity_curve) ==
  LET rolling_max == CumMax(equity_curve)
      dd == Tup([k \in 1..Len(equity_curve) |->
               RDiv(RSub(equity_curve[k], rolling_max[k]), rolling_max[k])])
  IN  SeriesMin(dd)

\* run(), lines 21-30: the four derived columns
WithCurves(df, initial_capital) ==
  LET returns == PctChange(df["Close"])
      strategy_returns == Tup([k \in 1..Len(returns) |-> RMul(returns[k], df["position"][k])])
      equity == Scale(CumProd(Plus1(strategy_returns)), Num(initial_capital))
      buy_hold == Scale(CumProd(Plus1(returns)), Num(initial_capital))
  IN  SetCol(SetCol(SetCol(SetCol(df, "returns", returns),
        "strategy_returns", strategy_returns), "equity", equity), "buy_hold", buy_hold)

\* _compute_trade_stats, lines 75 and 81: pos_change and pnl
WithTradeColumns(df, initial_capital) ==
  SetCol(SetCol(df, "pos_change", FillNa(Diff(df["position"]), Zero)),
         "pnl", Scale(df["strategy_returns"], Num(initial_capital)))

\* lines 76-78: len(df[df["pos_change"] != 0])
CountChanges(df) == Cardinality({k \in 1..NumRows(df) : RNe(df["pos_change"][k], Zero)})

\* Backtester.__init__
BacktesterInit ==
  \E src \in {"caller", "sdf"} :
    LET target == WorkingCopy(src, "btdf")
    IN  /\ \/ pc = "start" /\ src = "caller"
           \/ pc = "signals" /\ src = "sdf"
        /\ IF "Datetime" \notin Columns(heap[src])
             THEN Raise("KeyError") /\ UNCHANGED <<heap, bt>>
           ELSE /\ heap' = [heap EXCEPT ![target] = SortValues(heap[src])]
                /\ bt' = [df |-> target, src |-> src, initial_capital |-> InitialCapital]
                /\ pc' = "ready"
                /\ UNCHANGED err
        /\ UNCHANGED <<strat, raw, loopVars, results>>

\* run() up to the trade loop: lines 18-39 and 75-85
RunStart ==
  LET df == heap[bt.df]
      curves == WithCurves(df, bt.initial_capital)
      full == WithTradeColumns(curves, bt.initial_capital)
  IN  /\ pc = "ready" \/ (pc = "done" /\ Len(results) = 1)
      /\ IF "Close" \notin Columns(df)
           THEN Raise("KeyError") /\ UNCHANGED <<heap, loopVars>>
         ELSE IF "position" \notin Columns(df)
           THEN /\ Raise("KeyError")
                /\ heap' = [heap EXCEPT ![bt.df] = SetCol(df, "returns", PctChange(df["Close"]))]
                /\ UNCHANGED loopVars
         ELSE /\ heap' = [heap EXCEPT ![bt.df] = full]
              /\ metrics' = [sharpe |-> ComputeSharpe(full["strategy_returns"]),
                             max_dd |-> ComputeMaxDrawdown(full["equity"]),
                             num_trades |-> CountChanges(full)]
              /\ trade_pnls' = <<>>
              /\ current_pnl' = Zero
              /\ IF NumRows(full) = 0
                   THEN Raise("IndexError") /\ UNCHANGED <<i, prev_pos>>
                 ELSE /\ prev_pos' = full["position"][1]
                      /\ i' = 1
                      /\ pc' = "loop"
                      /\ UNCHANGED err
      /\ UNCHANGED <<strat, raw, bt, results>>

\* the loop row that scores a segment without restarting the accumulator
TradeLoopStepNoReset ==
  LET df == heap[bt.df]
  IN  /\ pc = "loop"
      /\ i <= NumRows(df)
      /\ IF REq(df["position"][i], prev_pos)
           THEN /\ current_pnl' = RAdd(current_pnl, df["pnl"][i])
                /\ UNCHANGED trade_pnls
           ELSE /\ trade_pnls' = Append(trade_pnls, current_pnl)
                /\ UNCHANGED current_pnl
      /\ prev_pos' = df["position"][i]
      /\ i' = i + 1
      /\ UNCHANGED <<heap, pc, err, strat, raw, bt, metrics, results>>

\* one row of the loop, lines 87-93
TradeLoopStep ==
  LET df == heap[bt.df]
  IN  /\ pc = "loop"
      /\ i <= NumRows(df)
      /\ IF REq(df["position"][i], prev_pos)
           THEN /\ current_pnl' = RAdd(current_pnl, df["pnl"][i])
                /\ UNCHANGED trade_pnls
           ELSE /\ trade_pnls' = Append(trade_pnls, current_pnl)
                /\ current_pnl' = Zero
      /\ prev_pos' = df["position"][i]
      /\ i' = i + 1
      /\ UNCHANGED <<heap, pc, err, strat, raw, bt, metrics, results>>

Max2(a, b) == IF a > b THEN a ELSE b

\* lines 98-111: the statistics over the scored segments
TradeStats(pnls, num_trades) ==
  LET wins == Cardinality({k \in 1..Len(pnls) : RGt(pnls[k], Zero)})
      losses == Cardinality({k \in 1..Len(pnls) : RLt(pnls[k], Zero)})
  IN  [num_trades |-> num_trades,
       wins |-> wins,
       losses |-> losses,
       win_rate |-> Rat(wins, Max2(1, wins + losses)),
       avg_pnl |-> IF Len(pnls) > 0 THEN RDiv(SeqSum(pnls), Num(Len(pnls))) ELSE Zero]

\* the end of the loop and of run(): lines 95-111 and 41-50
RunFinish ==
  LET df == heap[bt.df]
      n == NumRows(df)
      flushed == IF RNe(current_pnl, Zero) THEN Append(trade_pnls, current_pnl)
                 ELSE trade_pnls
  IN  /\ pc = "loop"
      /\ i > n
      /\ trade_pnls' = flushed
      /\ results' = Append(results,
           [final_equity |-> df["equity"][n],
            buy_hold_final |-> df["buy_hold"][n],
            sharpe_ratio |-> metrics.sharpe,
            max_drawdown |-> metrics.max_dd,
            trade_stats |-> TradeStats(flushed, metrics.num_trades),
            df |-> bt.df])
      /\ pc' = "done"
      /\ UNCHANGED <<heap, err, strat, raw, bt, i, current_pnl, prev_pos, metrics>>

Next ==
  \/ BuyLowSellHighGenerate
  \/ MeanReversionGenerate
  \/ BreakoutGenerate
  \/ CustomGenerate
  \/ BacktesterInit
  \/ RunStart
  \/ TradeLoopStep
  \/ RunFinish

Spec == Init /\ [][Next]_vars

\* ================================================================ claims
Btdf == heap[bt.df]
Ran == Len(results) >= 1
Report == results[Len(results)]
\* the strategy produced a finalized frame
Finalized == strat.kind # "none" /\ pc \in {"signals", "ready", "loop", "done"}
\* the position column the engine ran on, and its bar-level changes
Pos == Btdf["position"]
Changed(k) == k > 1 /\ Pos[k] # Pos[k - 1]
NumChanges == Cardinality({k \in 1..Len(Pos) : Changed(k)})

\* ------------------------------------------------------------------- C1
\* missing -> 0, then clamped to [-1, 1]
Normalized(v) ==
  IF IsNaN(v) THEN Zero
  ELSE IF v[1] < -v[2] THEN Num(-1)
  ELSE IF v[1] > v[2] THEN Num(1)
  ELSE v

\* C1: after generate_signals of any variant, position[0] = 0 and position[i] is
\* the normalized signal of bar i-1 (missing -> 0, clamped to [-1, 1]), so no
\* position depends on a signal of its own or a later bar.
C1_NoLookahead ==
  Finalized =>
    LET position == heap["sdf"]["position"]
    IN  /\ Len(position) = Len(raw)
        /\ \A k \in 1..Len(position) :
             position[k] = IF k = 1 THEN Zero ELSE Normalized(raw[k - 1])

C1_Witness ==
  /\ pc = "signals"
  /\ strat.kind = "Custom"
  /\ Len(raw) = 3
  /\ IsNaN(raw[1]) /\ raw[2] = Num(-2) /\ raw[3] = Rat(1, 2)
  /\ heap["sdf"]["position"] = <<Zero, Zero, Num(-1)>>

\* ------------------------------------------------------------------- C8
\* C8: every step leaves the caller's frame as it was; once a run has returned, the
\* frame its report names keeps its value; and a second run on the same input
\* returns a report equal to the first.
C8_PureRuns ==
  [][/\ heap'["caller"] = heap["caller"]
     /\ Ran => heap'[results[1].df] = heap[results[1].df]
     /\ Len(results') = 2 => results'[1] = results'[2]]_vars

C8_Witness ==
  /\ Len(results) = 2
  /\ strat.kind = "MeanReversion"
  /\ heap["caller"]["Datetime"] = <<Num(3), Num(2), Num(1)>>
  /\ heap["sdf"]["Datetime"] = <<Num(1), Num(2), Num(3)>>
  /\ Columns(heap["caller"]) = {"Datetime", "Close", "High", "Low"}
  /\ "equity" \in Columns(Btdf)

\* ------------------------------------------------------------------ C10
C10_Stats == Report.trade_stats

\* C10: each loop row with a changed position scores the accumulator and restarts
\* it at 0, no other row scores; the end of the series scores once more exactly
\* when the accumulator is not 0; num_trades is the number of changed bars, the
\* number of segments is num_trades or num_trades + 1, wins + losses <=
\* num_trades + 1, win_rate is wins / max(1, wins + losses) within [0, 1], and
\* avg_pnl is 0 when nothing was scored.
C10_TradeLoop ==
  [][/\ (pc = "loop" /\ pc' = "loop") =>
          IF Changed(i)
            THEN trade_pnls' = Append(trade_pnls, current_pnl) /\ current_pnl' = Zero
            ELSE trade_pnls' = trade_pnls
     /\ (pc = "loop" /\ pc' = "done") =>
          /\ trade_pnls' = IF current_pnl = Zero THEN trade_pnls
                           ELSE Append(trade_pnls, current_pnl)
          /\ C10_Stats'.num_trades = NumChanges
          /\ Len(trade_pnls') \in {NumChanges, NumChanges + 1}
          /\ C10_Stats'.wins + C10_Stats'.losses <= NumChanges + 1
          /\ C10_Stats'.win_rate =
               Rat(C10_Stats'.wins, Max2(1, C10_Stats'.wins + C10_Stats'.losses))
          /\ RLe(Zero, C10_Stats'.win_rate) /\ RLe(C10_Stats'.win_rate, One)
          /\ Len(trade_pnls') = 0 => C10_Stats'.avg_pnl = Zero]_vars

C10_Witness ==
  /\ pc = "done"
  /\ Len(Pos) = 3
  /\ NumChanges = 2
  /\ Len(trade_pnls) = 2
  /\ current_pnl = Zero
  /\ C10_Stats.num_trades = 2

\* ------------------------------------------------------------------- C2
\* the first bar of the k-th maximal run of equal positions, and its last
RunStarts == {1} \cup {k \in 1..Len(Pos) : Changed(k)}
FirstBarOfRun(r) == CHOOSE k \in RunStarts : Cardinality({j \in RunStarts : j < k}) = r - 1
LastBarOfRun(r) ==
  IF r = Cardinality(RunStarts) THEN Len(Pos) ELSE FirstBarOfRun(r + 1) - 1
RunPnl(r) == SeqSum(SubSeq(Btdf["pnl"], FirstBarOfRun(r), LastBarOfRun(r)))

\* C2: every scored segment is the sum of strategy_return * initial_capital over
\* all bars of its run, the bar on which the position changed included.
C2_TradePnlIsRunSum ==
  pc = "done" => \A r \in 1..Len(trade_pnls) : trade_pnls[r] = RunPnl(r)

\* ------------------------------------------------------------------- C3
AllFlat == \A k \in 1..Len(Pos) : Pos[k] = Zero
NoWipeout ==
  \A k \in 1..Len(Pos) : ~RLe(Btdf["strategy_returns"][k], Num(-1))

\* C3: with position 0 on every bar, every equity value, the first bar's and
\* final_equity included, is initial_capital; and equity is > 0 on every bar
\* when no strategy return is <= -1.
C3_FlatEquityIsCapital ==
  pc = "done" =>
    /\ AllFlat =>
         /\ \A k \in 1..Len(Pos) : Btdf["equity"][k] = Num(bt.initial_capital)
         /\ Report.final_equity = Num(bt.initial_capital)
    /\ NoWipeout => \A k \in 1..Len(Pos) : RGt(Btdf["equity"][k], Zero)

\* ------------------------------------------------------------------- C4
NonDecreasing(s) == \A k \in 2..Len(s) : RLe(s[k - 1], s[k])

\* C4: max_drawdown is <= 0, and is 0 when the equity curve never decreases.
C4_MaxDrawdownNonPositive ==
  pc = "done" =>
    /\ RLe(Report.max_drawdown, Zero)
    /\ NonDecreasing(Btdf["equity"]) => Report.max_drawdown = Zero

\* ------------------------------------------------------------------- C5
ZeroVariance(s) == \A j, k \in 1..Len(s) : IsNaN(s[j]) \/ IsNaN(s[k]) \/ s[j] = s[k]

\* C5: the Sharpe ratio is never undefined, and is 0 whenever all defined strategy
\* returns are equal (a flat run and a series too short for a variance included).
C5_SharpeZeroWithoutVariance ==
  pc = "done" =>
    /\ ~IsRootNaN(Report.sharpe_ratio)
    /\ ZeroVariance(Btdf["strategy_returns"]) => Report.sharpe_ratio = RootZero

\* ------------------------------------------------------------------- C6
ValidInput(df) ==
  /\ {"Datetime", "Close", "position"} \subseteq Columns(df)
  /\ NumRows(df) > 0
  /\ \A k \in 1..NumRows(df) : df["position"][k] \in {Num(-1), Zero, Num(1)}

\* C6: an input that lacks a required column, is empty or holds a position outside
\* {-1, 0, +1} ends in an error and yields no report.
C6_InputContractEnforced == Ran => ValidInput(heap[bt.src])

\* ------------------------------------------------------------------- C7
\* C7: a lookback of zero or less ends in an error with no signals or positions
\* produced, and so does a strategy output without a signal column.
C7_ConfigurationErrorSurfaced ==
  /\ (strat.kind \in {"BuyLowSellHigh", "MeanReversion", "Breakout"} /\ strat.lookback <= 0) =>
       /\ err # "none"
       /\ "position" \notin Columns(heap["sdf"])
  /\ (strat.kind = "Custom" /\ "signal" \notin Columns(heap["sdf"])) =>
       /\ err # "none"
       /\ "position" \notin Columns(heap["sdf"])

\* ------------------------------------------------------------------- C9
ConstantPrices ==
  /\ "Close" \in Columns(heap["caller"])
  /\ \A j, k \in 1..NumRows(heap["caller"]) :
       heap["caller"]["Close"][j] = heap["caller"]["Close"][k]

\* C9: on a constant price series every strategy variant ends with final_equity =
\* initial_capital, sharpe_ratio = 0, max_drawdown = 0 and num_trades = 0.
C9_ConstantSeriesNeutral ==
  (pc = "done" /\ strat.kind # "none" /\ ConstantPrices) =>
    /\ Report.final_equity = Num(bt.initial_capital)
    /\ Report.sharpe_ratio = RootZero
    /\ Report.max_drawdown = Zero
    /\ Report.trade_stats.num_trades = 0
=============================================================================
